---- MODULE Spec2Model ----
(***************************************************************************)
(* Model of reviewr.py: a one-shot command-line audit that detects the     *)
(* package manager of a project directory, runs its "list" command,        *)
(* flattens the JSON it prints into name@version strings and compares      *)
(* them with a hardcoded list of known-bad packages.                       *)
(*                                                                         *)
(* Python str values are sequences of one-character strings, so that       *)
(* formatting (concatenation), verbatim equality and the code-point order  *)
(* used by sorted() are computed, not assumed.                             *)
(***************************************************************************)
EXTENDS Integers, Sequences, FiniteSets, TLC

(* ---------------------------- Python str ---------------------------- *)

\* Code points of the characters that occur in the model (Python's ord()).
ord ==
  (" " :> 32 @@ "," :> 44 @@ "-" :> 45 @@ "." :> 46 @@ "/" :> 47 @@ "0" :> 48 @@
   "1" :> 49 @@ "2" :> 50 @@ "3" :> 51 @@ "4" :> 52 @@ "5" :> 53 @@ "6" :> 54 @@
   "7" :> 55 @@ "8" :> 56 @@ "9" :> 57 @@ "@" :> 64 @@ "a" :> 97 @@ "b" :> 98 @@
   "c" :> 99 @@ "d" :> 100 @@ "e" :> 101 @@ "f" :> 102 @@ "g" :> 103 @@ "h" :> 104 @@
   "i" :> 105 @@ "j" :> 106 @@ "k" :> 107 @@ "l" :> 108 @@ "m" :> 109 @@ "n" :> 110 @@
   "o" :> 111 @@ "p" :> 112 @@ "q" :> 113 @@ "r" :> 114 @@ "s" :> 115 @@ "t" :> 116 @@
   "u" :> 117 @@ "v" :> 118 @@ "w" :> 119 @@ "x" :> 120 @@ "y" :> 121 @@ "z" :> 122)

\* a < b for two Python str values: the first differing code point decides,
\* and a proper prefix is smaller.
StrLess(a, b) ==
  \E i \in 1..(Len(a) + 1) :
     /\ \A j \in 1..(i - 1) : j <= Len(b) /\ a[j] = b[j]
     /\ i <= Len(b)
     /\ (i > Len(a) \/ ord[a[i]] < ord[b[i]])

\* sorted(list(S)) for a set S of str values.
RECURSIVE sorted(_)
sorted(S) ==
  IF S = {} THEN <<>>
  ELSE LET m == CHOOSE x \in S : \A y \in S \ {x} : StrLess(x, y)
       IN  <<m>> \o sorted(S \ {m})

\* needle in haystack for two str values (substring test).
StrContains(needle, hay) ==
  \E i \in 0..(Len(hay) - Len(needle)) :
     \A j \in 1..Len(needle) : hay[i + j] = needle[j]

Range(s) == {s[i] : i \in 1..Len(s)}

\* The string literals of the program text.
k_version == <<"v","e","r","s","i","o","n">>
k_dependencies == <<"d","e","p","e","n","d","e","n","c","i","e","s">>
k_name == <<"n","a","m","e">>
k_trees == <<"t","r","e","e","s">>
k_type == <<"t","y","p","e">>
k_data == <<"d","a","t","a">>
k_tree == <<"t","r","e","e">>
at_sign == <<"@">>

(* --------------------------- Python values -------------------------- *)

\* What json.loads can return: a record whose one field is named after the
\* value's Python type.  A dict is the sequence of its (key, value) items in
\* insertion order; keys are str.
PyNone == [NoneType |-> TRUE]
PyStr(s) == [str |-> s]
PyInt(n) == [int |-> n]
PyList(xs) == [list |-> xs]
PyDict(items) == [dict |-> items]

\* type(x).__name__
TypeOf(x) == CHOOSE f \in DOMAIN x : TRUE

\* bool(x): None, 0 and empty containers are false.
Truthy(x) ==
  CASE TypeOf(x) = "NoneType" -> FALSE
    [] TypeOf(x) = "int" -> x.int # 0
    [] TypeOf(x) = "str" -> Len(x.str) > 0
    [] TypeOf(x) = "list" -> Len(x.list) > 0
    [] TypeOf(x) = "dict" -> Len(x.dict) > 0

\* key in d, and d[key], for a dict d and a str key.
HasKey(d, key) == \E i \in 1..Len(d.dict) : d.dict[i][1] = key
GetItem(d, key) == d.dict[CHOOSE i \in 1..Len(d.dict) : d.dict[i][1] = key][2]

\* d.get(key, default) for a dict d.
dict_get(d, key, default) == IF HasKey(d, key) THEN GetItem(d, key) ELSE default

\* The outcome of `key in x` for a str key: a truth value, or the TypeError
\* Python raises for an operand that is not a container.
Contains(key, x) ==
  CASE TypeOf(x) = "dict" -> [exc |-> "none", val |-> HasKey(x, key)]
    [] TypeOf(x) = "list" ->
         [exc |-> "none", val |-> \E i \in 1..Len(x.list) : x.list[i] = PyStr(key)]
    [] TypeOf(x) = "str" -> [exc |-> "none", val |-> StrContains(key, x.str)]
    [] OTHER -> [exc |-> "TypeError", val |-> FALSE]

\* The decimal digits, for formatting an int inside an f-string.
RECURSIVE Decimal(_)
Decimal(n) ==
  LET digit == <<"0","1","2","3","4","5","6","7","8","9">>[(n % 10) + 1]
  IN  IF n < 10 THEN <<digit>> ELSE Decimal(n \div 10) \o <<digit>>

\* str(x) as an f-string field: a str is copied, an int is written in decimal.
format_field(x) == IF TypeOf(x) = "int" THEN Decimal(x.int) ELSE x.str

\* f"{name}@{version}"
format_package(name, version) == name \o at_sign \o format_field(version)

(* ------------------------- captured output -------------------------- *)

\* A captured output is the sequence of its lines.  A line is blank, or one
\* complete JSON text (given by the value json.loads returns for it), or
\* text that is not JSON.
BlankLine == [k |-> "blank", v |-> PyNone]
GarbageLine == [k |-> "garbage", v |-> PyNone]
JsonLine(x) == [k |-> "json", v |-> x]

IsBlank(line) == line.k = "blank"

\* json.loads(text): whitespace around the document is skipped; an empty
\* text, text that is not JSON and a second document after the first all
\* raise JSONDecodeError.
json_loads(text) ==
  LET body == SelectSeq(text, LAMBDA l : ~IsBlank(l))
  IN  IF Len(body) = 1 /\ body[1].k = "json"
      THEN [exc |-> "none", val |-> body[1].v]
      ELSE [exc |-> "JSONDecodeError", val |-> PyNone]

\* stdout.strip().split('\n'): the lines between the first and the last
\* non-blank line; an all-blank output gives the single line ''.
strip_split(text) ==
  LET idx == {i \in 1..Len(text) : ~IsBlank(text[i])}
  IN  IF idx = {} THEN <<BlankLine>>
      ELSE LET lo == CHOOSE i \in idx : \A j \in idx : i <= j
               hi == CHOOSE i \in idx : \A j \in idx : j <= i
           IN  SubSeq(text, lo, hi)

(* ----------------------------- normalizer --------------------------- *)

\* A walk of the normalizer ends normally or with an exception; either way
\* `set` is packages_set as the walk left it.
Ok(acc) == [exc |-> "none", set |-> acc]
Raise(e, acc) == [exc |-> e, set |-> acc]

\* _parse_npm_pnpm_recursive(deps), adding to packages_set = acc.
\* (The version values of the modelled outputs are None, str or int.)
RECURSIVE parse_npm_pnpm_recursive(_, _)
RECURSIVE npm_pnpm_items(_, _, _)
parse_npm_pnpm_recursive(deps, acc) ==
  IF TypeOf(deps) # "dict" THEN Raise("AttributeError", acc)    \* deps.items()
  ELSE npm_pnpm_items(deps.dict, 1, acc)

\* Mutant of npm_pnpm_items: the recursion sits inside `if version:`.
RECURSIVE npm_pnpm_items_versioned_only(_, _, _)
npm_pnpm_items_versioned_only(items, i, acc) ==
  IF i > Len(items) THEN Ok(acc)
  ELSE
    LET name == items[i][1]
        details == items[i][2]
    IN  IF TypeOf(details) # "dict" THEN Raise("AttributeError", acc)
        ELSE
          LET version == dict_get(details, k_version, PyNone)
          IN  IF ~Truthy(version)
              THEN npm_pnpm_items_versioned_only(items, i + 1, acc)
              ELSE IF HasKey(details, k_dependencies)
              THEN LET r == parse_npm_pnpm_recursive(GetItem(details, k_dependencies),
                                                     acc \cup {format_package(name, version)})
                   IN  IF r.exc # "none" THEN r
                       ELSE npm_pnpm_items_versioned_only(items, i + 1, r.set)
              ELSE npm_pnpm_items_versioned_only(items, i + 1,
                                                 acc \cup {format_package(name, version)})

\* The body of the for loop over deps.items(), from item i on.
npm_pnpm_items(items, i, acc) ==
  IF i > Len(items) THEN Ok(acc)
  ELSE
    LET name == items[i][1]
        details == items[i][2]
    IN  IF TypeOf(details) # "dict" THEN Raise("AttributeError", acc)   \* details.get
        ELSE
          LET version == dict_get(details, k_version, PyNone)
              acc1 == IF Truthy(version)
                      THEN acc \cup {format_package(name, version)}
                      ELSE acc
          IN  IF HasKey(details, k_dependencies)
              THEN LET r == parse_npm_pnpm_recursive(GetItem(details, k_dependencies), acc1)
                   IN  IF r.exc # "none" THEN r
                       ELSE npm_pnpm_items(items, i + 1, r.set)
              ELSE npm_pnpm_items(items, i + 1, acc1)

\* What `for item in trees` iterates over, or the TypeError for a value
\* that is not iterable.
Iterate(x) ==
  CASE TypeOf(x) = "list" -> [exc |-> "none", val |-> x.list]
    [] TypeOf(x) = "dict" ->
         [exc |-> "none", val |-> [i \in 1..Len(x.dict) |-> PyStr(x.dict[i][1])]]
    [] TypeOf(x) = "str" ->
         [exc |-> "none", val |-> [i \in 1..Len(x.str) |-> PyStr(<<x.str[i]>>)]]
    [] OTHER -> [exc |-> "TypeError", val |-> <<>>]

\* _parse_yarn_recursive(trees), adding to packages_set = acc.
\* (The name values of the modelled outputs are str, list or dict.)
RECURSIVE parse_yarn_recursive(_, _)
RECURSIVE yarn_items(_, _, _)
parse_yarn_recursive(trees, acc) ==
  LET it == Iterate(trees)
  IN  IF it.exc # "none" THEN Raise(it.exc, acc)
      ELSE yarn_items(it.val, 1, acc)

\* The body of the for loop over trees, from item i on.
yarn_items(items, i, acc) ==
  IF i > Len(items) THEN Ok(acc)
  ELSE
    LET item == items[i]
        has_name == Contains(k_name, item)
        has_trees == Contains(k_trees, item)
    IN  IF has_name.exc # "none" THEN Raise(has_name.exc, acc)
        ELSE IF has_name.val /\ TypeOf(item) # "dict"
        THEN Raise("TypeError", acc)                      \* item['name']
        ELSE IF has_name.val /\ TypeOf(GetItem(item, k_name)) \in {"list", "dict"}
        THEN Raise("TypeError", acc)                      \* unhashable
        ELSE
          LET acc1 == IF has_name.val
                      THEN acc \cup {GetItem(item, k_name).str}
                      ELSE acc
          IN  IF ~has_trees.val THEN yarn_items(items, i + 1, acc1)
              ELSE IF TypeOf(item) # "dict"
              THEN Raise("TypeError", acc1)               \* item['trees']
              ELSE IF ~Truthy(GetItem(item, k_trees))
              THEN yarn_items(items, i + 1, acc1)
              ELSE LET r == parse_yarn_recursive(GetItem(item, k_trees), acc1)
                   IN  IF r.exc # "none" THEN r
                       ELSE yarn_items(items, i + 1, r.set)

\* data[0] for a value data that is true.
Subscript0(data) ==
  CASE TypeOf(data) = "list" -> [exc |-> "none", val |-> data.list[1]]
    [] TypeOf(data) = "str" -> [exc |-> "none", val |-> PyStr(<<data.str[1]>>)]
    [] TypeOf(data) = "dict" -> [exc |-> "KeyError", val |-> PyNone]
    [] OTHER -> [exc |-> "TypeError", val |-> PyNone]

\* The npm/pnpm branch of the try block.
parse_npm_pnpm(manager_arg, stdout) ==
  LET loaded == json_loads(stdout)
      data == loaded.val
      first == IF manager_arg = "pnpm" /\ Truthy(data)
               THEN Subscript0(data)
               ELSE [exc |-> "none", val |-> data]
      root == first.val
      has_deps == Contains(k_dependencies, root)
  IN  IF loaded.exc # "none" THEN Raise(loaded.exc, {})
      ELSE IF first.exc # "none" THEN Raise(first.exc, {})
      ELSE IF has_deps.exc # "none" THEN Raise(has_deps.exc, {})
      ELSE IF ~has_deps.val THEN Ok({})
      ELSE IF TypeOf(root) # "dict" THEN Raise("TypeError", {})   \* root['dependencies']
      ELSE parse_npm_pnpm_recursive(GetItem(root, k_dependencies), {})

\* Mutant of yarn_lines: the loop has no break after the tree record.
RECURSIVE yarn_lines_no_break(_, _)
yarn_lines_no_break(lines, i) ==
  IF i > Len(lines) THEN Ok({})
  ELSE
    LET loaded == json_loads(<<lines[i]>>)
        data == loaded.val
        rest == yarn_lines_no_break(lines, i + 1)
    IN  IF loaded.exc # "none" THEN Raise(loaded.exc, {})
        ELSE IF TypeOf(data) # "dict" THEN Raise("AttributeError", {})
        ELSE IF dict_get(data, k_type, PyNone) # PyStr(k_tree) THEN rest
        ELSE
          LET inner == dict_get(data, k_data, PyDict(<<>>))
              has_trees == Contains(k_trees, inner)
          IN  IF has_trees.exc # "none" THEN Raise(has_trees.exc, {})
              ELSE IF ~has_trees.val THEN rest
              ELSE IF TypeOf(inner) # "dict" THEN Raise("TypeError", {})
              ELSE LET r == parse_yarn_recursive(GetItem(inner, k_trees), {})
                   IN  IF r.exc # "none" \/ rest.exc # "none"
                       THEN Raise(IF r.exc # "none" THEN r.exc ELSE rest.exc, r.set)
                       ELSE Ok(r.set \cup rest.set)

\* The yarn branch of the try block: the for loop over the lines, from
\* line i on.
RECURSIVE yarn_lines(_, _)
yarn_lines(lines, i) ==
  IF i > Len(lines) THEN Ok({})
  ELSE
    LET loaded == json_loads(<<lines[i]>>)
        data == loaded.val
    IN  IF loaded.exc # "none" THEN Raise(loaded.exc, {})
        ELSE IF TypeOf(data) # "dict" THEN Raise("AttributeError", {})   \* data.get
        ELSE IF dict_get(data, k_type, PyNone) # PyStr(k_tree)
        THEN yarn_lines(lines, i + 1)
        ELSE
          LET inner == dict_get(data, k_data, PyDict(<<>>))
              has_trees == Contains(k_trees, inner)
          IN  IF has_trees.exc # "none" THEN Raise(has_trees.exc, {})
              ELSE IF ~has_trees.val THEN Ok({})            \* break
              ELSE IF TypeOf(inner) # "dict" THEN Raise("TypeError", {})
              ELSE parse_yarn_recursive(GetItem(inner, k_trees), {})

parse_yarn(stdout) == yarn_lines(strip_split(stdout), 1)

\* Step 3 of list_node_packages: the walk of the try block, then the
\* except clause and the return.  `raised` is the exception that leaves the
\* function, `printed` whether the parse error was printed.
normalize(manager_arg, stdout) ==
  LET walk == IF manager_arg \in {"npm", "pnpm"}
              THEN parse_npm_pnpm(manager_arg, stdout)
              ELSE parse_yarn(stdout)
  IN  IF walk.exc = "none"
      THEN [raised |-> "none", printed |-> FALSE, value |-> sorted(walk.set),
            packages_set |-> walk.set]
      ELSE IF walk.exc \in {"JSONDecodeError", "IndexError"}
      THEN [raised |-> "none", printed |-> TRUE, value |-> <<>>,
            packages_set |-> walk.set]
      ELSE [raised |-> walk.exc, printed |-> FALSE, value |-> <<>>,
            packages_set |-> walk.set]

(* ------------------------- modelled inputs -------------------------- *)

\* Package names and versions the modelled manager outputs are built from.
debug == <<"d","e","b","u","g">>
ngx_color == <<"n","g","x","-","c","o","l","o","r">>
NameSeq == <<debug, ngx_color>>
v4_4_2 == <<"4",".","4",".","2">>
v4_4_3 == <<"4",".","4",".","3">>
v10_0_2 == <<"1","0",".","0",".","2">>
EmptyStr == <<>>

\* Most nodes of a dependency tree drawn for the normalizer.
MaxNodes == 2

\* An npm/pnpm node: a dict with an optional "version" and an optional
\* "dependencies".  ver = PyNone stands for a node without the key.
NpmNode(ver, withDeps, deps) ==
  PyDict((IF ver = PyNone THEN <<>> ELSE << <<k_version, ver>> >>)
         \o (IF withDeps THEN << <<k_dependencies, PyDict(deps)>> >> ELSE <<>>))

\* The "dependencies" mappings (item sequences) over the names NameSeq[i..]
\* with at most n nodes, versions drawn from vers; and the nodes of at most n
\* nodes.
RECURSIVE DepsFrom(_, _, _)
RECURSIVE NpmNodes(_, _)
DepsFrom(i, n, vers) ==
  IF i > Len(NameSeq) \/ n = 0 THEN {<<>>}
  ELSE DepsFrom(i + 1, n, vers)
       \cup UNION {{<< <<NameSeq[i], node>> >> \o rest :
                      node \in NpmNodes(k, vers), rest \in DepsFrom(i + 1, n - k, vers)} :
                   k \in 1..n}

NpmNodes(n, vers) ==
  LET vs == {PyNone} \cup {PyStr(v) : v \in vers}
  IN  {NpmNode(v, FALSE, <<>>) : v \in vs}
      \cup {NpmNode(v, TRUE, d) : v \in vs, d \in DepsFrom(1, n - 1, vers)}

\* The root objects npm prints: the project's own node, with or without a
\* "dependencies" mapping.
proj == <<"p","r","o","j">>
NpmRoots(n, vers) ==
  {PyDict(<< <<k_name, PyStr(proj)>> >>)}
  \cup {PyDict(<< <<k_name, PyStr(proj)>>, <<k_dependencies, PyDict(d)>> >>) :
          d \in DepsFrom(1, n, vers)}

\* Well-formed outputs: npm prints the root object, pnpm an array that is
\* empty or wraps the root object; both end with a newline.
WellFormedNpm(n, vers) == {<<JsonLine(r), BlankLine>> : r \in NpmRoots(n, vers)}
WellFormedPnpm(n, vers) ==
  {<<JsonLine(PyList(<<>>)), BlankLine>>}
  \cup {<<JsonLine(PyList(<<r>>)), BlankLine>> : r \in NpmRoots(n, vers)}

\* The yarn tree nodes' preformatted names.
debug_4_4_2 == debug \o at_sign \o v4_4_2
debug_4_4_3 == debug \o at_sign \o v4_4_3
ngx_color_10_0_2 == ngx_color \o at_sign \o v10_0_2
k_info == <<"i","n","f","o">>
k_list == <<"l","i","s","t">>

\* A yarn tree node: a dict with an optional "name" and an optional "trees".
YarnNode(name, withTrees, trees) ==
  PyDict((IF name = PyNone THEN <<>> ELSE << <<k_name, name>> >>)
         \o (IF withTrees THEN << <<k_trees, PyList(trees)>> >> ELSE <<>>))

\* The lists of yarn tree nodes with at most n nodes, names drawn from names.
RECURSIVE YarnTrees(_, _)
RECURSIVE YarnNodes(_, _)
YarnTrees(n, names) ==
  IF n = 0 THEN {<<>>}
  ELSE {<<>>}
       \cup UNION {{<<node>> \o rest :
                      node \in YarnNodes(k, names), rest \in YarnTrees(n - k, names)} :
                   k \in 1..n}

YarnNodes(n, names) ==
  LET ns == {PyNone} \cup {PyStr(x) : x \in names}
  IN  {YarnNode(x, FALSE, <<>>) : x \in ns}
      \cup {YarnNode(x, TRUE, t) : x \in ns, t \in YarnTrees(n - 1, names)}

\* The records of a yarn stream: {"type":"tree","data":{"type":"list",
\* "trees":[...]}}, and records of other types, one of which carries a
\* "trees" array of its own.
TreeRecord(trees) ==
  PyDict(<< <<k_type, PyStr(k_tree)>>,
            <<k_data, PyDict(<< <<k_type, PyStr(k_list)>>, <<k_trees, PyList(trees)>> >>)>> >>)
InfoRecord == PyDict(<< <<k_type, PyStr(k_info)>>, <<k_data, PyStr(proj)>> >>)
OtherRecord ==
  PyDict(<< <<k_type, PyStr(k_list)>>,
            <<k_data, PyDict(<< <<k_trees, PyList(<<YarnNode(PyStr(debug_4_4_3), FALSE, <<>>)>>)>> >>)>> >>)
TreeRecordNoTrees ==
  PyDict(<< <<k_type, PyStr(k_tree)>>, <<k_data, PyDict(<< <<k_type, PyStr(k_list)>> >>)>> >>)

\* Well-formed yarn streams: records of other types, then possibly a tree
\* record, then possibly more records, a second tree record among them.
YarnHeads == {<<>>, <<JsonLine(InfoRecord)>>, <<JsonLine(OtherRecord)>>}
YarnTails ==
  {<<BlankLine>>, <<JsonLine(InfoRecord), BlankLine>>,
   <<JsonLine(TreeRecord(<<YarnNode(PyStr(debug_4_4_3), FALSE, <<>>)>>)), BlankLine>>}
WellFormedYarn(n, names) ==
  {h \o <<JsonLine(InfoRecord), BlankLine>> : h \in YarnHeads}
  \cup {h \o <<JsonLine(TreeRecordNoTrees)>> \o t : h \in YarnHeads, t \in YarnTails}
  \cup {h \o <<JsonLine(TreeRecord(trees))>> \o t :
          h \in YarnHeads, t \in YarnTails, trees \in YarnTrees(n, names)}

\* Outputs of a whole run: the flat trees over the two names, each present
\* or not, with one of the versions or none.
RunVersions == {v4_4_2, v4_4_3, v10_0_2}
RunRoots ==
  LET vs == {PyNone} \cup {PyStr(v) : v \in RunVersions}
      opt(i) == {<<>>} \cup {<< <<NameSeq[i], NpmNode(v, FALSE, <<>>)>> >> : v \in vs}
  IN  {PyDict(<< <<k_name, PyStr(proj)>> >>)}
      \cup {PyDict(<< <<k_name, PyStr(proj)>>, <<k_dependencies, PyDict(a \o b)>> >>) :
              a \in opt(1), b \in opt(2)}
RunYarnTrees ==
  LET ns == {debug_4_4_2, debug_4_4_3, ngx_color_10_0_2}
  IN  {<<>>}
      \cup {<<YarnNode(PyStr(a), FALSE, <<>>)>> : a \in ns}
      \cup {<<YarnNode(PyStr(a), TRUE, <<YarnNode(PyStr(b), FALSE, <<>>)>>)>> : a \in ns, b \in ns}

\* Outputs that are not JSON, or are JSON of another shape than the
\* manager's.
NotJson == {<<>>, <<BlankLine>>, <<GarbageLine, BlankLine>>}
MalformedNpm ==
  NotJson
  \cup {<<JsonLine(x), BlankLine>> :
          x \in {PyList(<<>>), PyInt(5), PyNone,
                 PyDict(<< <<k_dependencies, PyList(<<PyStr(debug)>>)>> >>),
                 PyDict(<< <<k_dependencies, PyDict(<< <<debug, PyStr(v4_4_2)>> >>)>> >>)}}
MalformedPnpm ==
  NotJson
  \cup {<<JsonLine(x), BlankLine>> :
          x \in {PyDict(<< <<k_dependencies, PyDict(<<>>)>> >>), PyInt(5),
                 PyList(<<PyInt(5)>>),
                 PyList(<<PyDict(<< <<k_dependencies, PyDict(<< <<debug, PyStr(v4_4_2)>> >>)>> >>)>>)}}
MalformedYarn ==
  NotJson
  \cup {<<JsonLine(x), BlankLine>> :
          x \in {PyList(<<>>), PyInt(5),
                 PyDict(<< <<k_type, PyStr(k_tree)>>, <<k_data, PyNone>> >>),
                 TreeRecord(<<PyInt(5)>>)}}
  \cup {<<JsonLine(InfoRecord), BlankLine, JsonLine(TreeRecord(<<>>)), BlankLine>>}

WellFormed(m, n) ==
  CASE m = "npm" -> WellFormedNpm(n, {v4_4_2, v4_4_3, EmptyStr})
    [] m = "pnpm" -> WellFormedPnpm(n, {v4_4_2, v4_4_3, EmptyStr})
    [] OTHER -> WellFormedYarn(n, {debug_4_4_2, ngx_color_10_0_2})

Malformed(m) ==
  CASE m = "npm" -> MalformedNpm
    [] m = "pnpm" -> MalformedPnpm
    [] OTHER -> MalformedYarn

RunOutputs(m) ==
  Malformed(m)
  \cup (CASE m = "npm" -> {<<JsonLine(r), BlankLine>> : r \in RunRoots}
          [] m = "pnpm" -> {<<JsonLine(PyList(<<r>>)), BlankLine>> : r \in RunRoots}
          [] OTHER -> {<<JsonLine(InfoRecord), JsonLine(TreeRecord(t)), BlankLine>> :
                         t \in RunYarnTrees})

(* ------------------------------ blocklist --------------------------- *)

\* The literal of line 8.
bad_packages_literal ==
  << <<"a","n","g","u","l","a","r","t","i","c","s","2","@","1","4",".","1",".","2">>,
     <<"@","c","t","r","l","/","d","e","l","u","g","e","@","7",".","2",".","2">>,
     <<"@","c","t","r","l","/","g","o","l","a","n","g","-","t","e","m","p","l","a","t","e","@","1",".","4",".","3">>,
     <<"@","c","t","r","l","/","m","a","g","n","e","t","-","l","i","n","k","@","4",".","0",".","4">>,
     <<"@","c","t","r","l","/","n","g","x","-","c","o","d","e","m","i","r","r","o","r","@","7",".","0",".","2">>,
     <<"@","c","t","r","l","/","n","g","x","-","c","s","v","@","6",".","0",".","2">>,
     <<"@","c","t","r","l","/","n","g","x","-","e","m","o","j","i","-","m","a","r","t","@","9",".","2",".","2">>,
     <<"@","c","t","r","l","/","n","g","x","-","r","i","g","h","t","c","l","i","c","k","@","4",".","0",".","2">>,
     <<"@","c","t","r","l","/","q","b","i","t","t","o","r","r","e","n","t","@","9",".","7",".","2">>,
     <<"@","c","t","r","l","/","r","e","a","c","t","-","a","d","s","e","n","s","e","@","2",".","0",".","2">>,
     <<"@","c","t","r","l","/","s","h","a","r","e","d","-","t","o","r","r","e","n","t","@","6",".","3",".","2">>,
     <<"@","c","t","r","l","/","t","i","n","y","c","o","l","o","r","@","4",".","1",".","1",","," ","@","4",".","1",".","2">>,
     <<"@","c","t","r","l","/","t","o","r","r","e","n","t","-","f","i","l","e","@","4",".","1",".","2">>,
     <<"@","c","t","r","l","/","t","r","a","n","s","m","i","s","s","i","o","n","@","7",".","3",".","1">>,
     <<"@","c","t","r","l","/","t","s","-","b","a","s","e","3","2","@","4",".","0",".","2">>,
     <<"e","n","c","o","u","n","t","e","r","-","p","l","a","y","g","r","o","u","n","d","@","0",".","0",".","5">>,
     <<"j","s","o","n","-","r","u","l","e","s","-","e","n","g","i","n","e","-","s","i","m","p","l","i","f","i","e","d","@","0",".","2",".","4",","," ","0",".","2",".","1">>,
     <<"k","o","a","2","-","s","w","a","g","g","e","r","-","u","i","@","5",".","1","1",".","2",","," ","5",".","1","1",".","1">>,
     <<"@","n","a","t","i","v","e","s","c","r","i","p","t","-","c","o","m","m","u","n","i","t","y","/","g","e","s","t","u","r","e","h","a","n","d","l","e","r","@","2",".","0",".","3","5">>,
     <<"@","n","a","t","i","v","e","s","c","r","i","p","t","-","c","o","m","m","u","n","i","t","y","/","s","e","n","t","r","y"," ","4",".","6",".","4","3">>,
     <<"@","n","a","t","i","v","e","s","c","r","i","p","t","-","c","o","m","m","u","n","i","t","y","/","t","e","x","t","@","1",".","6",".","1","3">>,
     <<"@","n","a","t","i","v","e","s","c","r","i","p","t","-","c","o","m","m","u","n","i","t","y","/","u","i","-","c","o","l","l","e","c","t","i","o","n","v","i","e","w","@","6",".","0",".","6">>,
     <<"@","n","a","t","i","v","e","s","c","r","i","p","t","-","c","o","m","m","u","n","i","t","y","/","u","i","-","d","r","a","w","e","r","@","0",".","1",".","3","0">>,
     <<"@","n","a","t","i","v","e","s","c","r","i","p","t","-","c","o","m","m","u","n","i","t","y","/","u","i","-","i","m","a","g","e","@","4",".","5",".","6">>,
     <<"@","n","a","t","i","v","e","s","c","r","i","p","t","-","c","o","m","m","u","n","i","t","y","/","u","i","-","m","a","t","e","r","i","a","l","-","b","o","t","t","o","m","s","h","e","e","t","@","7",".","2",".","7","2">>,
     <<"@","n","a","t","i","v","e","s","c","r","i","p","t","-","c","o","m","m","u","n","i","t","y","/","u","i","-","m","a","t","e","r","i","a","l","-","c","o","r","e","@","7",".","2",".","7","6">>,
     <<"@","n","a","t","i","v","e","s","c","r","i","p","t","-","c","o","m","m","u","n","i","t","y","/","u","i","-","m","a","t","e","r","i","a","l","-","c","o","r","e","-","t","a","b","s","@","7",".","2",".","7","6">>,
     <<"n","g","x","-","c","o","l","o","r","@","1","0",".","0",".","2">>,
     <<"n","g","x","-","t","o","a","s","t","r","@","1","9",".","0",".","2">>,
     <<"n","g","x","-","t","r","e","n","d","@","8",".","0",".","1">>,
     <<"r","e","a","c","t","-","c","o","m","p","l","a","i","n","t","-","i","m","a","g","e","@","0",".","0",".","3","5">>,
     <<"r","e","a","c","t","-","j","s","o","n","s","c","h","e","m","a","-","f","o","r","m","-","c","o","n","d","i","t","i","o","n","a","l","s","@","0",".","3",".","2","1">>,
     <<"r","e","a","c","t","-","j","s","o","n","s","c","h","e","m","a","-","f","o","r","m","-","e","x","t","r","a","s","@","1",".","0",".","4">>,
     <<"r","x","n","t","-","a","u","t","h","e","n","t","i","c","a","t","i","o","n","@","0",".","0",".","6">>,
     <<"r","x","n","t","-","h","e","a","l","t","h","c","h","e","c","k","s","-","n","e","s","t","j","s","@","1",".","0",".","5">>,
     <<"r","x","n","t","-","k","u","e","@","1",".","0",".","7">>,
     <<"s","w","c","-","p","l","u","g","i","n","-","c","o","m","p","o","n","e","n","t","-","a","n","n","o","t","a","t","e","@","1",".","9",".","2">>,
     <<"t","s","-","g","a","u","s","s","i","a","n","@","3",".","0",".","6">>,
     <<"@","c","r","o","w","d","s","t","r","i","k","e","/","c","o","m","m","i","t","l","i","n","t","@","8",".","1",".","1",","," ","8",".","1",".","2">>,
     <<"@","c","r","o","w","d","s","t","r","i","k","e","/","f","a","l","c","o","n","-","s","h","o","e","l","a","c","e","@","0",".","4",".","2">>,
     <<"@","c","r","o","w","d","s","t","r","i","k","e","/","f","o","u","n","d","r","y","-","j","s","@","0",".","1","9",".","2">>,
     <<"@","c","r","o","w","d","s","t","r","i","k","e","/","g","l","i","d","e","-","c","o","r","e","@","0",".","3","4",".","2",","," ","0",".","3","4",".","3">>,
     <<"@","c","r","o","w","d","s","t","r","i","k","e","/","l","o","g","s","c","a","l","e","-","d","a","s","h","b","o","a","r","d","@","1",".","2","0","5",".","2">>,
     <<"@","c","r","o","w","d","s","t","r","i","k","e","/","l","o","g","s","c","a","l","e","-","f","i","l","e","-","e","d","i","t","o","r","@","1",".","2","0","5",".","2">>,
     <<"@","c","r","o","w","d","s","t","r","i","k","e","/","l","o","g","s","c","a","l","e","-","p","a","r","s","e","r","-","e","d","i","t","@","1",".","2","0","5",".","1",","," ","1",".","2","0","5",".","2">>,
     <<"@","c","r","o","w","d","s","t","r","i","k","e","/","l","o","g","s","c","a","l","e","-","s","e","a","r","c","h","@","1",".","2","0","5",".","2">>,
     <<"@","c","r","o","w","d","s","t","r","i","k","e","/","t","a","i","l","w","i","n","d","-","t","o","u","c","a","n","-","b","a","s","e","@","5",".","0",".","2">>,
     <<"b","r","o","w","s","e","r","-","w","e","b","d","r","i","v","e","r","-","d","o","w","n","l","o","a","d","e","r","@","3",".","0",".","8">>,
     <<"e","m","b","e","r","-","b","r","o","w","s","e","r","-","s","e","r","v","i","c","e","s","@","5",".","0",".","3">>,
     <<"e","m","b","e","r","-","h","e","a","d","l","e","s","s","-","f","o","r","m","-","y","u","p","@","1",".","0",".","1">>,
     <<"e","m","b","e","r","-","h","e","a","d","l","e","s","s","-","f","o","r","m","@","1",".","1",".","3">>,
     <<"e","m","b","e","r","-","h","e","a","d","l","e","s","s","-","t","a","b","l","e","@","2",".","1",".","6">>,
     <<"e","m","b","e","r","-","u","r","l","-","h","a","s","h","-","p","o","l","y","f","i","l","l","@","1",".","0",".","1","3">>,
     <<"e","m","b","e","r","-","v","e","l","c","r","o","@","2",".","2",".","2">>,
     <<"e","s","l","i","n","t","-","c","o","n","f","i","g","-","c","r","o","w","d","s","t","r","i","k","e","-","n","o","d","e","@","4",".","0",".","4">>,
     <<"e","s","l","i","n","t","-","c","o","n","f","i","g","-","c","r","o","w","d","s","t","r","i","k","e","@","1","1",".","0",".","3">>,
     <<"m","o","n","o","r","e","p","o","-","n","e","x","t","@","1","3",".","0",".","2">>,
     <<"r","e","m","a","r","k","-","p","r","e","s","e","t","-","l","i","n","t","-","c","r","o","w","d","s","t","r","i","k","e","@","4",".","0",".","2">>,
     <<"v","e","r","r","o","r","-","e","x","t","r","a","@","6",".","0",".","1">>,
     <<"y","a","r","g","s","-","h","e","l","p","-","o","u","t","p","u","t","@","5",".","0",".","3">>,
     <<"d","e","b","u","g","@","4",".","4",".","2">> >>

(* ------------------------------- state ------------------------------ *)

VARIABLES
  pc,                  \* the position of the script
  path_isdir,          \* os.path.isdir(project_path)
  files,               \* the marker files that exist in project_path
  manager,             \* args.manager
  depth,               \* args.depth
  manager_arg,         \* list_node_packages' manager_arg
  command,             \* list_node_packages' command
  proc,                \* what subprocess.run did
  parsed,              \* whether step 3 (the try block of line 89) was entered
  packages_set,        \* list_node_packages' packages_set
  returned,            \* whether list_node_packages returned to the caller
  installed_packages,  \* the main block's installed_packages
  infected_packages,   \* the main block's infected_packages
  exc,                 \* the exception that left list_node_packages
  out,                 \* what was printed, in order
  bad_packages         \* the module-level blocklist

vars ==
  <<pc, path_isdir, files, manager, depth, manager_arg, command, proc, parsed,
    packages_set, returned, installed_packages, infected_packages, exc, out,
    bad_packages>>

Markers == {"pnpm-lock.yaml", "yarn.lock", "package-lock.json", "node_modules"}
\* --manager takes any string; "None" is the default None.
Managers == {"None", "npm", "yarn", "pnpm", "bun"}
DefaultDepth == 10
Depths == {DefaultDepth, 0}

\* What subprocess.run can do: fail to start the executable (not found, or
\* found and not executable), or run it to an exit status.
NotRun == [launch |-> "not_run", returncode |-> 0, stdout |-> <<>>, stderr |-> <<>>]
LaunchFailures == {"FileNotFoundError", "PermissionError"}
ErrText == <<"e","r","r">>
ProcOutcomes(m) ==
  {[launch |-> f, returncode |-> 0, stdout |-> <<>>, stderr |-> <<>>] : f \in LaunchFailures}
  \cup {[launch |-> "ok", returncode |-> rc, stdout |-> s, stderr |-> e] :
          rc \in {1, 2, -9}, e \in {EmptyStr, ErrText},
          s \in {<<BlankLine>>, <<JsonLine(PyDict(<<>>)), BlankLine>>}}
  \cup {[launch |-> "ok", returncode |-> 0, stdout |-> s, stderr |-> EmptyStr] :
          s \in RunOutputs(m)}

Printing(lines) == out' = out \o lines

(* ------------------------- list_node_packages ----------------------- *)

\* Mutant of select_manager: yarn.lock is looked for before pnpm-lock.yaml.
select_manager_yarn_first(override, present) ==
  IF override = "yarn" \/ "yarn.lock" \in present THEN "yarn"
  ELSE IF override = "pnpm" \/ "pnpm-lock.yaml" \in present THEN "pnpm"
  ELSE IF override = "npm" \/ "package-lock.json" \in present
          \/ "node_modules" \in present THEN "npm"
  ELSE "None"

\* Step 1: the if/elif chain that picks the manager ("None": the else
\* branch).
select_manager(override, present) ==
  IF override = "pnpm" \/ "pnpm-lock.yaml" \in present THEN "pnpm"
  ELSE IF override = "yarn" \/ "yarn.lock" \in present THEN "yarn"
  ELSE IF override = "npm" \/ "package-lock.json" \in present
          \/ "node_modules" \in present THEN "npm"
  ELSE "None"

\* The command list of the chosen manager.
command_of(m, d) == <<m, "list", "--json", [depth |-> d]>>

\* Mutant of benign_exit: the test forgets the manager.
benign_exit_any_manager(m, e) == e.returncode = 1 /\ ~(Len(e.stderr) > 0)

\* The test of line 63: npm's exit status 1 with nothing on stderr.
benign_exit(m, e) == m = "npm" /\ e.returncode = 1 /\ ~(Len(e.stderr) > 0)

\* Mutant of caught_at_launch: the clause names another OSError subclass.
caught_at_launch_wrong_class(e) == e = "PermissionError"

\* The except clause of line 59: the launch failures that are caught there.
caught_at_launch(e) == e = "FileNotFoundError"

\* `return []` from list_node_packages into the main block's assignment.
ReturnEmpty ==
  /\ installed_packages' = <<>>
  /\ returned' = TRUE
  /\ pc' = "report"

\* The main block up to the call of list_node_packages.
Start ==
  /\ pc = "main"
  /\ Printing(<< <<"checking", depth>> >>)
  /\ pc' = "isdir"
  /\ UNCHANGED <<path_isdir, files, manager, depth, manager_arg, command, proc,
                 parsed, packages_set, returned, installed_packages,
                 infected_packages, exc, bad_packages>>

\* Mutant of CheckDir: the check does not raise.
CheckDir_no_raise ==
  /\ pc = "isdir"
  /\ pc' = "detect"
  /\ UNCHANGED <<path_isdir, files, manager, depth, manager_arg, command, proc,
                 parsed, packages_set, returned, installed_packages,
                 infected_packages, exc, out, bad_packages>>

\* The directory check that opens list_node_packages.
CheckDir ==
  /\ pc = "isdir"
  /\ IF ~path_isdir
     THEN exc' = "FileNotFoundError" /\ pc' = "except"
     ELSE exc' = exc /\ pc' = "detect"
  /\ UNCHANGED <<path_isdir, files, manager, depth, manager_arg, command, proc,
                 parsed, packages_set, returned, installed_packages,
                 infected_packages, out, bad_packages>>

\* Step 1: determine the package manager and its command.
Detect ==
  /\ pc = "detect"
  /\ LET m == select_manager(manager, files)
     IN  /\ manager_arg' = m
         /\ IF m = "None"
            THEN /\ command' = <<>>
                 /\ Printing(<< <<"warning_no_lock_file">> >>)
                 /\ ReturnEmpty
            ELSE /\ command' = command_of(m, depth)
                 /\ pc' = "run"
                 /\ UNCHANGED <<out, returned, installed_packages>>
  /\ UNCHANGED <<path_isdir, files, manager, depth, proc, parsed, packages_set,
                 infected_packages, exc, bad_packages>>

\* Step 2: run the list command and handle its failures.
RunCommand ==
  /\ pc = "run"
  /\ \E p \in ProcOutcomes(manager_arg) :
       /\ proc' = p
       /\ IF p.launch # "ok" /\ caught_at_launch(p.launch)
          THEN /\ Printing(<< <<"not_found", command[1]>> >>)
               /\ ReturnEmpty
               /\ exc' = exc
          ELSE IF p.launch # "ok"
          THEN /\ exc' = p.launch
               /\ pc' = "except"
               /\ UNCHANGED <<out, returned, installed_packages>>
          ELSE IF p.returncode # 0 /\ benign_exit(manager_arg, p)
          THEN /\ ReturnEmpty
               /\ UNCHANGED <<out, exc>>
          ELSE IF p.returncode # 0
          THEN /\ Printing(<< <<"error_running", command>>, <<"stderr", p.stderr>> >>)
               /\ exc' = "CalledProcessError"
               /\ pc' = "except"
               /\ UNCHANGED <<returned, installed_packages>>
          ELSE /\ pc' = "parse"
               /\ UNCHANGED <<out, returned, installed_packages, exc>>
  /\ UNCHANGED <<path_isdir, files, manager, depth, manager_arg, command, parsed,
                 packages_set, infected_packages, bad_packages>>

\* Step 3: parse the captured output and return the sorted list.
Parse ==
  /\ pc = "parse"
  /\ LET r == normalize(manager_arg, proc.stdout)
     IN  /\ parsed' = TRUE
         /\ packages_set' = r.packages_set
         /\ IF r.raised # "none"
            THEN /\ exc' = r.raised
                 /\ pc' = "except"
                 /\ UNCHANGED <<out, returned, installed_packages>>
            ELSE /\ out' = IF r.printed
                           THEN Append(out, <<"parse_error", manager_arg>>)
                           ELSE out
                 /\ installed_packages' = r.value
                 /\ returned' = TRUE
                 /\ pc' = "report"
                 /\ exc' = exc
  /\ UNCHANGED <<path_isdir, files, manager, depth, manager_arg, command, proc,
                 infected_packages, bad_packages>>

(* ----------------------------- main block --------------------------- *)

\* Mutant of in_bad_packages: the scan stops one entry short of the end.
in_bad_packages_short(pkg, bad) == \E i \in 1..(Len(bad) - 1) : bad[i] = pkg

\* pkg in bad_packages
in_bad_packages(pkg, bad) == \E i \in 1..Len(bad) : bad[i] = pkg

\* The for loop over installed_packages, from package i on: what it appends
\* to infected_packages and what it prints.
RECURSIVE report_loop(_, _, _, _)
report_loop(installed, bad, i, st) ==
  IF i > Len(installed) THEN st
  ELSE LET pkg == installed[i]
       IN  report_loop(installed, bad, i + 1,
             [infected |-> IF in_bad_packages(pkg, bad)
                           THEN Append(st.infected, pkg)
                           ELSE st.infected,
              lines |-> Append(st.lines, <<"package", pkg>>)])

\* The listing of the installed packages.
Report ==
  /\ pc = "report"
  /\ LET st == report_loop(installed_packages, bad_packages, 1,
                           [infected |-> <<>>, lines |-> <<>>])
     IN  IF Len(installed_packages) > 0
         THEN /\ infected_packages' = st.infected
              /\ Printing(<< <<"found", Len(installed_packages)>> >> \o st.lines)
         ELSE /\ infected_packages' = <<>>
              /\ Printing(<< <<"no_packages_found">> >>)
  /\ pc' = "verdict"
  /\ UNCHANGED <<path_isdir, files, manager, depth, manager_arg, command, proc,
                 parsed, packages_set, returned, installed_packages, exc,
                 bad_packages>>

\* Mutant of Verdict: the infected branch is never taken.
Verdict_always_clear ==
  /\ pc = "verdict"
  /\ Printing(<< <<"clear">> >>)
  /\ pc' = "exit"
  /\ UNCHANGED <<path_isdir, files, manager, depth, manager_arg, command, proc,
                 parsed, packages_set, returned, installed_packages,
                 infected_packages, exc, bad_packages>>

\* The verdict.
Verdict ==
  /\ pc = "verdict"
  /\ IF Len(infected_packages) # 0
     THEN Printing(<< <<"infected">> >>
                   \o [i \in 1..Len(infected_packages) |->
                         <<"infected_package", infected_packages[i]>>])
     ELSE Printing(<< <<"clear">> >>)
  /\ pc' = "exit"
  /\ UNCHANGED <<path_isdir, files, manager, depth, manager_arg, command, proc,
                 parsed, packages_set, returned, installed_packages,
                 infected_packages, exc, bad_packages>>

\* The except clauses of the main block.
handler_of(e) ==
  CASE e = "FileNotFoundError" -> "error"
    [] e = "CalledProcessError" -> "command_failed"
    [] OTHER -> "unexpected_error"

Handle ==
  /\ pc = "except"
  /\ Printing(<< <<handler_of(exc), exc>> >>)
  /\ pc' = "exit"
  /\ UNCHANGED <<path_isdir, files, manager, depth, manager_arg, command, proc,
                 parsed, packages_set, returned, installed_packages,
                 infected_packages, exc, bad_packages>>

(* --------------------------- specifications ------------------------- *)

Init ==
  /\ pc = "main"
  /\ path_isdir \in BOOLEAN
  /\ files \in SUBSET Markers
  /\ (~path_isdir => files = {})
  /\ manager \in Managers
  /\ depth \in Depths
  /\ manager_arg = "None"
  /\ command = <<>>
  /\ proc = NotRun
  /\ parsed = FALSE
  /\ packages_set = {}
  /\ returned = FALSE
  /\ installed_packages = <<>>
  /\ infected_packages = <<>>
  /\ exc = "none"
  /\ out = <<>>
  /\ bad_packages = bad_packages_literal

Next == Start \/ CheckDir \/ Detect \/ RunCommand \/ Parse \/ Report \/ Verdict \/ Handle

\* One run of the script.
Spec == Init /\ [][Next]_vars

\* The normalizer alone: list_node_packages has reached step 3 with the
\* output of a manager that exited with status 0, here a well-formed one,
\* and may be entered again on the same output.
InitNormalize ==
  /\ pc = "parse"
  /\ path_isdir = TRUE
  /\ files = {}
  /\ manager \in {"npm", "pnpm", "yarn"}
  /\ depth = DefaultDepth
  /\ manager_arg = select_manager(manager, files)
  /\ command = command_of(manager_arg, depth)
  /\ proc \in {[launch |-> "ok", returncode |-> 0, stdout |-> s, stderr |-> EmptyStr] :
                 s \in WellFormed(manager, MaxNodes)}
  /\ parsed = FALSE
  /\ packages_set = {}
  /\ returned = FALSE
  /\ installed_packages = <<>>
  /\ infected_packages = <<>>
  /\ exc = "none"
  /\ out = << <<"checking", depth>> >>
  /\ bad_packages = bad_packages_literal

\* Step 3 is entered again on the same captured output.
Rerun ==
  /\ pc = "report"
  /\ pc' = "parse"
  /\ UNCHANGED <<path_isdir, files, manager, depth, manager_arg, command, proc,
                 parsed, packages_set, returned, installed_packages,
                 infected_packages, exc, out, bad_packages>>

NextNormalize == Parse \/ Rerun

SpecNormalize == InitNormalize /\ [][NextNormalize]_vars

(* ------------------------------ claims ------------------------------ *)

Printed(tag) == \E i \in 1..Len(out) : out[i][1] = tag
Verdicts == {i \in 1..Len(out) : out[i][1] \in {"clear", "infected"}}
Detected == pc \notin {"main", "isdir", "detect"}
InBlocklist(pkg) == \E i \in 1..Len(bad_packages_literal) : bad_packages_literal[i] = pkg

\* C1 (the claim as stated): with --manager npm, yarn or pnpm the overridden
\* manager is the one selected and the one whose list command is invoked,
\* whatever marker files the directory holds.
C1_OverrideWins ==
  (path_isdir /\ Detected /\ manager \in {"npm", "yarn", "pnpm"})
    => (manager_arg = manager /\ command[1] = manager)

\* The manager the claim C2 names for a set of marker files.
LockfileManager(present) ==
  IF "pnpm-lock.yaml" \in present THEN "pnpm"
  ELSE IF "yarn.lock" \in present THEN "yarn"
  ELSE IF present \cap {"package-lock.json", "node_modules"} # {} THEN "npm"
  ELSE "None"

\* C2: with no override in an existing directory the manager is pnpm if
\* pnpm-lock.yaml exists, else yarn if yarn.lock exists, else npm if
\* package-lock.json or node_modules exists, else none; and with none the
\* warning is printed, no child is run, nothing is raised, the list is empty
\* and the run goes on to the report.
C2_LockfileDetection ==
  (path_isdir /\ Detected /\ manager = "None")
    => /\ manager_arg = LockfileManager(files)
       /\ LockfileManager(files) = "None"
            => /\ Printed("warning_no_lock_file")
               /\ proc = NotRun
               /\ ~parsed
               /\ exc = "none"
               /\ returned
               /\ installed_packages = <<>>
               /\ pc \in {"report", "verdict", "exit"}
               /\ (pc = "exit" => Printed("no_packages_found"))

C2_Witness ==
  /\ pc = "exit"
  /\ path_isdir /\ manager = "None" /\ files = {}
  /\ Printed("warning_no_lock_file") /\ Printed("no_packages_found")

\* C3: when the path is not a directory list_node_packages raises
\* FileNotFoundError before any detection, whatever the override: no manager
\* is chosen, no child is run, the error is reported by the main block, and
\* neither a package list nor a verdict is produced.
C3_MissingDirectoryAborts ==
  (~path_isdir /\ pc \notin {"main", "isdir"})
    => /\ exc = "FileNotFoundError"
       /\ manager_arg = "None" /\ command = <<>>
       /\ ~Printed("warning_no_lock_file")
       /\ proc = NotRun
       /\ ~parsed
       /\ ~returned
       /\ pc \in {"except", "exit"}
       /\ ~Printed("found") /\ ~Printed("no_packages_found")
       /\ Verdicts = {}
       /\ (pc = "exit" => Printed("error"))

C3_Witness ==
  pc = "exit" /\ ~path_isdir /\ manager = "pnpm" /\ Printed("error")

\* The command ran and exited with a non-zero status.
ExitedNonZero == proc.launch = "ok" /\ proc.returncode # 0

\* C4: after a non-zero exit, npm with status 1 and empty error output
\* returns an empty list without raising; every other case prints the
\* manager's error output and raises CalledProcessError to the main block,
\* which aborts the run; the standard output is never parsed.
C4_NonZeroExit ==
  ExitedNonZero
    => /\ ~parsed
       /\ IF manager_arg = "npm" /\ proc.returncode = 1 /\ proc.stderr = EmptyStr
          THEN /\ exc = "none"
               /\ returned
               /\ installed_packages = <<>>
               /\ ~Printed("error_running")
          ELSE /\ exc = "CalledProcessError"
               /\ \E i \in 1..Len(out) : out[i][1] = "stderr" /\ out[i][2] = proc.stderr
               /\ ~returned
               /\ pc \in {"except", "exit"}
               /\ Verdicts = {}
               /\ (pc = "exit" => Printed("command_failed"))

C4_Witness ==
  /\ pc = "exit" /\ ExitedNonZero
  /\ manager_arg = "npm" /\ proc.returncode = 1 /\ proc.stderr = EmptyStr
  /\ returned

\* What C5 promises of a launch failure: a diagnostic, an empty list, no
\* exception, and the "no packages found" report.
SoftLaunchFailure ==
  /\ exc = "none"
  /\ Printed("not_found")
  /\ returned
  /\ installed_packages = <<>>
  /\ ~parsed
  /\ (pc = "exit" => Printed("no_packages_found"))

\* C5 (the claim as stated): whenever the manager's executable cannot be
\* located or launched, the fetcher prints a diagnostic and returns an empty
\* list without raising, and the run reports that no packages were found.
C5_LaunchFailureIsSoft == proc.launch \in LaunchFailures => SoftLaunchFailure

\* C5 (amended): when the manager's executable is not found
\* (FileNotFoundError), for npm, yarn and pnpm alike, the fetcher prints a
\* diagnostic and returns an empty list without raising, and the run reports
\* that no packages were found.
C5_NotFoundIsSoft == proc.launch = "FileNotFoundError" => SoftLaunchFailure

C5_Witness ==
  /\ pc = "exit" /\ proc.launch = "FileNotFoundError" /\ manager_arg = "yarn"
  /\ Printed("not_found") /\ Printed("no_packages_found")

\* C6 (the claim as stated): for output that is not JSON or is JSON of
\* another shape than the manager's, the normalizer reports a parse failure
\* and returns an empty list, and the run continues to the report.
C6_MalformedIsSoft ==
  (parsed /\ proc.stdout \in Malformed(manager_arg))
    => /\ exc = "none"
       /\ Printed("parse_error")
       /\ returned
       /\ installed_packages = <<>>

\* The root object of a well-formed npm or pnpm output (an object without
\* dependencies for pnpm's empty array).
RootOf(m, stdout) ==
  LET data == stdout[1].v
  IN  IF m = "npm" THEN data
      ELSE IF Len(data.list) = 0 THEN PyDict(<<>>)
      ELSE data.list[1]

\* The (name, version) pairs with a non-empty version anywhere in a
\* "dependencies" mapping.
RECURSIVE VersionedPairs(_)
VersionedPairs(deps) ==
  UNION {LET name == deps.dict[i][1]
             node == deps.dict[i][2]
         IN  (IF HasKey(node, k_version) /\ GetItem(node, k_version).str # EmptyStr
              THEN {<<name, GetItem(node, k_version).str>>}
              ELSE {})
             \cup (IF HasKey(node, k_dependencies)
                   THEN VersionedPairs(GetItem(node, k_dependencies))
                   ELSE {}) :
         i \in 1..Len(deps.dict)}

ExpectedPackages(root) ==
  IF HasKey(root, k_dependencies)
  THEN {p[1] \o at_sign \o p[2] : p \in VersionedPairs(GetItem(root, k_dependencies))}
  ELSE {}

StrictlySorted(s) == \A i \in 1..Len(s) : \A j \in (i + 1)..Len(s) : StrLess(s[i], s[j])

C7_Flattened ==
  (manager_arg \in {"npm", "pnpm"} /\ pc = "report")
    => /\ exc = "none" /\ ~Printed("parse_error")
       /\ Range(installed_packages) = ExpectedPackages(RootOf(manager_arg, proc.stdout))
       /\ StrictlySorted(installed_packages)

\* C7: for every well-formed npm or pnpm tree the result is the sorted,
\* duplicate-free sequence of exactly the strings name@version of the pairs
\* that occur with a non-empty version at any depth, also below a node
\* without a version; and entering the normalizer again on the same output
\* gives the same sequence.
C7_NpmPnpmNormalized ==
  /\ []C7_Flattened
  /\ [][(pc = "parse" /\ returned /\ manager_arg \in {"npm", "pnpm"})
          => installed_packages' = installed_packages]_vars

\* The normalizer has returned the one package of a pnpm tree, which sits
\* below a node without a version.
C7_Witness ==
  /\ pc = "report" /\ manager_arg = "pnpm" /\ returned
  /\ HasKey(RootOf("pnpm", proc.stdout), k_dependencies)
  /\ LET deps == GetItem(RootOf("pnpm", proc.stdout), k_dependencies)
     IN  /\ Len(deps.dict) = 1
         /\ ~HasKey(deps.dict[1][2], k_version)
         /\ HasKey(deps.dict[1][2], k_dependencies)
  /\ installed_packages = <<debug_4_4_2>>

\* The first line of a stream that is a record of type "tree" (0: none).
FirstTree(lines) ==
  LET idx == {i \in 1..Len(lines) :
                /\ lines[i].k = "json"
                /\ TypeOf(lines[i].v) = "dict"
                /\ dict_get(lines[i].v, k_type, PyNone) = PyStr(k_tree)}
  IN  IF idx = {} THEN 0 ELSE CHOOSE i \in idx : \A j \in idx : i <= j

\* The name fields of the nodes reachable through nested "trees" arrays.
RECURSIVE ReachableNames(_)
ReachableNames(trees) ==
  UNION {(IF HasKey(trees[i], k_name) THEN {GetItem(trees[i], k_name).str} ELSE {})
         \cup (IF HasKey(trees[i], k_trees)
               THEN ReachableNames(GetItem(trees[i], k_trees).list)
               ELSE {}) :
         i \in 1..Len(trees)}

\* C8: for every well-formed yarn stream the result holds exactly the name
\* fields reachable through nested trees arrays from the first record of
\* type "tree"; records of other types before it are ignored, and the lines
\* after it, a second tree record included, change nothing.
C8_YarnFirstTree ==
  (manager_arg = "yarn" /\ pc = "report")
    => LET lines == proc.stdout
           first == FirstTree(lines)
           data == dict_get(lines[first].v, k_data, PyDict(<<>>))
       IN  /\ exc = "none" /\ ~Printed("parse_error")
           /\ Range(installed_packages)
                = IF first = 0 \/ ~HasKey(data, k_trees) THEN {}
                  ELSE ReachableNames(GetItem(data, k_trees).list)
           /\ first # 0
                => installed_packages = normalize("yarn", SubSeq(lines, 1, first)).value

\* A decoy record first, a tree record with a nested node, then a second
\* tree record that names another package.
C8_Witness ==
  /\ pc = "report" /\ manager_arg = "yarn"
  /\ FirstTree(proc.stdout) = 2
  /\ Len(proc.stdout) = 4
  /\ FirstTree(SubSeq(proc.stdout, 3, 4)) = 1
  /\ Len(installed_packages) = 2
  /\ debug_4_4_3 \notin Range(installed_packages)

\* C9: the infected list is the installed list restricted to the packages
\* that equal a blocklist entry verbatim, order kept and nothing added;
\* exactly debug@4.4.2 installed gives exactly debug@4.4.2 infected, an
\* installed debug@4.4.3 is not infected; the blocklist never changes.
C9_InfectedSubset ==
  /\ bad_packages = bad_packages_literal
  /\ pc \in {"verdict", "exit"}
       => /\ infected_packages = SelectSeq(installed_packages, InBlocklist)
          /\ installed_packages = <<debug_4_4_2>> => infected_packages = <<debug_4_4_2>>
          /\ debug_4_4_3 \notin Range(infected_packages)

C9_Witness ==
  /\ pc = "exit"
  /\ installed_packages = <<debug_4_4_2>>
  /\ infected_packages = <<debug_4_4_2>>
  /\ Printed("infected")

\* The run's package list is empty because of a soft failure.
SoftFailure ==
  \/ Printed("warning_no_lock_file")
  \/ Printed("not_found")
  \/ (ExitedNonZero /\ returned)
  \/ Printed("parse_error")

\* C10: a run prints at most one verdict; at its end "You are clear" was
\* printed exactly if list_node_packages returned and no installed package
\* is in the blocklist, so after every soft failure; a run aborted by a
\* missing directory or a failed command prints no verdict; and "Some
\* packages are infected" is printed only with an installed package in the
\* blocklist.
C10_Verdict ==
  /\ Cardinality(Verdicts) <= 1
  /\ pc = "exit"
       => /\ Printed("clear")
               <=> (returned /\ \A i \in 1..Len(installed_packages) :
                                   ~InBlocklist(installed_packages[i]))
          /\ SoftFailure => Printed("clear")
          /\ (~path_isdir \/ exc = "CalledProcessError") => Verdicts = {}
          /\ Printed("infected")
               => (returned /\ \E i \in 1..Len(installed_packages) :
                                  InBlocklist(installed_packages[i]))

C10_Witness ==
  pc = "exit" /\ Printed("parse_error") /\ Printed("clear") /\ Cardinality(Verdicts) = 1

====
